---- MODULE Spec2Model ----
(***************************************************************************)
(* The "Oral Health Tips" category page of the directory site              *)
(* (src/src/app/oral-health-tips/page.tsx): the data loader                *)
(* getOralHealthTipsData with its three Prisma queries joined by           *)
(* Promise.all, generateMetadata and the page component                    *)
(* OralHealthTipsPage.                                                     *)
(*                                                                         *)
(* Optional (nullable) values are modelled as sequences of length at most  *)
(* one: Null is <<>> and a present value v is <<v>>.                       *)
(***************************************************************************)
EXTENDS Integers, Sequences, FiniteSets, TLC

VARIABLES
    store,            \* the relational store: [categories, articles], rows in physical order
    descNullsFirst,   \* the database's placement of NULL keys under ORDER BY ... DESC
    version,          \* number of writes other parts of the site have made to the store
    query,            \* query[c][q]: state of query q of caller c's Loader invocation
    issued,           \* issued[c][q]: how many times that query has been sent to the store
    seen,             \* seen[c][q]: store version the query's result was read from
    result,           \* result[c]: the three raw query results of caller c's invocation
    loader,           \* loader[c]: state of caller c's Loader invocation
    data,             \* data[c]: what the Loader returned to caller c (Null or Some(PageData))
    metadata,         \* outcome of generateMetadata
    page              \* outcome of OralHealthTipsPage

vars == <<store, descNullsFirst, version, query, issued, seen, result, loader,
          data, metadata, page>>

-----------------------------------------------------------------------------
(* Nullable values *)

Null == <<>>
Some(v) == <<v>>
Val(x) == x[1]

\* Variant: a || b, which also skips an empty string.
CoalesceFalsy(a, b) == IF a # Null /\ Val(a) # "" THEN a ELSE b

\* JavaScript's a ?? b: b only when a is null or undefined.
Coalesce(a, b) == IF a # Null THEN a ELSE b

Min(a, b) == IF a <= b THEN a ELSE b

-----------------------------------------------------------------------------
(* Program constants and literals *)

CATEGORY_SLUG == "oral-health-tips"

PUBLISHED == "PUBLISHED"

FallbackTitle == "Oral Health Tips for Kids"
\* (the source's typographic apostrophe is written ' here)
FallbackDescription == "Expert oral health tips to help families protect kids' smiles with preventive care at home."
TitleSuffix == " | Pediatric Dentist Directory"
DefaultDescription == "Practical pediatric oral health advice covering brushing routines, diet tips, and preventative care."
HeroFallback == "Actionable oral health guidance from pediatric dental specialists to keep smiles bright at every age."
ReadTipHref == "/blog/{article.slug}/"
RelatedLimit == 3

Callers == {"generateMetadata", "OralHealthTipsPage"}
Queries == {"category", "articles", "siblingCategories"}

-----------------------------------------------------------------------------
(* Bounds and value domains of the store contents explored *)

MaxArticles == 3      \* article rows in the ordering and sibling stores
MaxListed == 4        \* article rows in the listing stores
MaxWrites == 1        \* writes by other parts of the site during one request

Statuses == {PUBLISHED, "DRAFT"}
Stamps == {1, 2}
\* Category names in ascending collation order; a name's rank is its index.
NamesAscending == <<"Dental Care", "Oral Health Tips", "Teething">>
SiblingSlugs == {"dental-care", "teething"}

NameRank(name) == CHOOSE i \in DOMAIN NamesAscending : NamesAscending[i] = name

-----------------------------------------------------------------------------
(* Stable insertion sort.  before is the set of pairs <<x, y>> of rows for  *)
(* which x sorts strictly before y.  Rows that tie on every sort key keep   *)
(* the order in which the store yields them.                                *)

Range(rows) == {rows[i] : i \in DOMAIN rows}

RECURSIVE InsertOrdered(_, _, _)
InsertOrdered(x, sorted, before) ==
    IF sorted = <<>> THEN <<x>>
    ELSE IF <<x, Head(sorted)>> \in before THEN <<x>> \o sorted
    ELSE <<Head(sorted)>> \o InsertOrdered(x, Tail(sorted), before)

RECURSIVE OrderBy(_, _)
OrderBy(rows, before) ==
    IF rows = <<>> THEN <<>>
    ELSE InsertOrdered(rows[Len(rows)],
                       OrderBy(SubSeq(rows, 1, Len(rows) - 1), before), before)

-----------------------------------------------------------------------------
(* The three queries of getOralHealthTipsData *)

CategoryOf(s, a) == CHOOSE c \in Range(s.categories) : c.id = a.categoryId

\* Variant: the lookup without its where clause (the first category row).
FindFirstCategory(s) ==
    IF s.categories = <<>> THEN Null
    ELSE Some([id |-> s.categories[1].id, name |-> s.categories[1].name,
               slug |-> s.categories[1].slug,
               description |-> s.categories[1].description,
               seoTitle |-> s.categories[1].seoTitle,
               seoDescription |-> s.categories[1].seoDescription])

\* prisma.category.findUnique({ where: { slug: CATEGORY_SLUG }, select: ... })
FindUniqueCategory(s) ==
    LET hits == SelectSeq(s.categories, LAMBDA c : c.slug = CATEGORY_SLUG)
    IN  IF hits = <<>> THEN Null
        ELSE Some([id |-> hits[1].id, name |-> hits[1].name, slug |-> hits[1].slug,
                   description |-> hits[1].description,
                   seoTitle |-> hits[1].seoTitle,
                   seoDescription |-> hits[1].seoDescription])

\* Variant: the article filter without its status condition.
ArticleWhereAnyStatus(s, a) == CategoryOf(s, a).slug = CATEGORY_SLUG

\* where: { status: 'PUBLISHED', category: { slug: CATEGORY_SLUG } }
ArticleWhere(s, a) ==
    /\ a.status = PUBLISHED
    /\ CategoryOf(s, a).slug = CATEGORY_SLUG

\* One key of an ORDER BY ... DESC: -1 when x sorts before y, 1 when after, 0 on a tie.
\* The query names no NULLS FIRST/LAST, so the database places the nulls.
CompareDesc(x, y, nullsFirst) ==
    IF x = Null /\ y = Null THEN 0
    ELSE IF x = Null THEN (IF nullsFirst THEN -1 ELSE 1)
    ELSE IF y = Null THEN (IF nullsFirst THEN 1 ELSE -1)
    ELSE IF Val(x) > Val(y) THEN -1
    ELSE IF Val(x) < Val(y) THEN 1
    ELSE 0

\* Variant: the ordering without its second key.
ArticleBeforeByPublishedAt(a, b, nullsFirst) ==
    CompareDesc(a.publishedAt, b.publishedAt, nullsFirst) < 0

\* orderBy: [{ publishedAt: 'desc' }, { createdAt: 'desc' }]
ArticleBefore(a, b, nullsFirst) ==
    LET first == CompareDesc(a.publishedAt, b.publishedAt, nullsFirst)
    IN  IF first # 0 THEN first < 0
        ELSE CompareDesc(Some(a.createdAt), Some(b.createdAt), nullsFirst) < 0

\* include: { author: ..., category: { select: { name, slug } } }
ArticleInclude(s, a) ==
    [id |-> a.id, slug |-> a.slug, status |-> a.status,
     publishedAt |-> a.publishedAt, createdAt |-> a.createdAt,
     category |-> [name |-> CategoryOf(s, a).name, slug |-> CategoryOf(s, a).slug]]

\* prisma.article.findMany({ where, include, orderBy })
FindManyArticles(s, nullsFirst) ==
    LET rows == SelectSeq(s.articles, LAMBDA a : ArticleWhere(s, a))
        before == {p \in Range(rows) \X Range(rows) : ArticleBefore(p[1], p[2], nullsFirst)}
        ordered == OrderBy(rows, before)
    IN  [i \in DOMAIN ordered |-> ArticleInclude(s, ordered[i])]

\* Variant: the nested article selection without its status condition.
AllIdsOf(s, c) ==
    LET rows == SelectSeq(s.articles, LAMBDA a : a.categoryId = c.id)
    IN  [i \in DOMAIN rows |-> [id |-> rows[i].id]]

\* articles: { where: { status: 'PUBLISHED' }, select: { id: true } }
PublishedIdsOf(s, c) ==
    LET rows == SelectSeq(s.articles, LAMBDA a : a.categoryId = c.id /\ a.status = PUBLISHED)
    IN  [i \in DOMAIN rows |-> [id |-> rows[i].id]]

\* where: { slug: { not: CATEGORY_SLUG }, articles: { some: { status: 'PUBLISHED' } } }
SiblingWhere(s, c) ==
    /\ c.slug # CATEGORY_SLUG
    /\ \E i \in DOMAIN s.articles :
          s.articles[i].categoryId = c.id /\ s.articles[i].status = PUBLISHED

\* orderBy: { name: 'asc' }
SiblingBefore(c, d) == NameRank(c.name) < NameRank(d.name)

\* prisma.category.findMany({ where, select, orderBy })
FindManyCategories(s) ==
    LET rows == SelectSeq(s.categories, LAMBDA c : SiblingWhere(s, c))
        before == {p \in Range(rows) \X Range(rows) : SiblingBefore(p[1], p[2])}
        ordered == OrderBy(rows, before)
    IN  [i \in DOMAIN ordered |->
            [name |-> ordered[i].name, slug |-> ordered[i].slug,
             articles |-> PublishedIdsOf(s, ordered[i])]]

RunQuery(q, s, nullsFirst) ==
    CASE q = "category" -> FindUniqueCategory(s)
      [] q = "articles" -> FindManyArticles(s, nullsFirst)
      [] q = "siblingCategories" -> FindManyCategories(s)

-----------------------------------------------------------------------------
(* What getOralHealthTipsData makes of the three resolved results *)

SiblingSummary(item) == [name |-> item.name, slug |-> item.slug, count |-> Len(item.articles)]

LoaderResult(r) ==
    IF r["category"] = Null THEN Null
    ELSE Some([category |-> Val(r["category"]),
               articles |-> r["articles"],
               siblingCategories |-> [i \in DOMAIN r["siblingCategories"] |->
                                         SiblingSummary(r["siblingCategories"][i])]])

-----------------------------------------------------------------------------
(* generateMetadata, after its await of the Loader *)

MetadataTitle(category) == Val(Coalesce(category.seoTitle, Some(category.name \o TitleSuffix)))

MetadataDescription(category) ==
    Val(Coalesce(category.seoDescription,
                 Coalesce(category.description, Some(DefaultDescription))))

\* Variant: the Open Graph title built from the name alone.
BuildMetadataNameOpenGraph(d) ==
    IF d = Null
    THEN [title |-> FallbackTitle, description |-> FallbackDescription]
    ELSE [title |-> MetadataTitle(Val(d).category),
          description |-> MetadataDescription(Val(d).category),
          openGraph |-> [title |-> Val(d).category.name \o TitleSuffix,
                         description |-> MetadataDescription(Val(d).category)]]

BuildMetadata(d) ==
    IF d = Null
    THEN [title |-> FallbackTitle, description |-> FallbackDescription]
    ELSE [title |-> MetadataTitle(Val(d).category),
          description |-> MetadataDescription(Val(d).category),
          openGraph |-> [title |-> MetadataTitle(Val(d).category),
                         description |-> MetadataDescription(Val(d).category)]]

-----------------------------------------------------------------------------
(* OralHealthTipsPage, after its await of the Loader *)

\* Variant: the whole array, not a slice.
SliceWhole(rows, end) == rows

\* Array.prototype.slice(0, end)
SliceFromStart(rows, end) == SubSeq(rows, 1, Min(end, Len(rows)))

TitleHref(article) == "/blog/" \o article.slug \o "/"

\* Variant: the "Read tip" link interpolated like the title link.
ArticleCardInterpolated(article) ==
    [key |-> article.id,
     badge |-> article.category.name,
     titleHref |-> TitleHref(article),
     showDate |-> article.publishedAt # Null,
     readHref |-> TitleHref(article)]

ArticleCard(article) ==
    [key |-> article.id,
     badge |-> article.category.name,
     titleHref |-> TitleHref(article),
     showDate |-> article.publishedAt # Null,
     readHref |-> ReadTipHref]

Hero(category) ==
    [heading |-> category.name,
     subheading |-> Val(Coalesce(category.description, Some(HeroFallback)))]

Sidebar(d) ==
    [categoryName |-> d.category.name,
     siblingCategories |-> d.siblingCategories,
     relatedArticles |-> SliceFromStart(d.articles, RelatedLimit),
     activeCategorySlug |-> CATEGORY_SLUG]

NoTree(outcome) ==
    [outcome |-> outcome, hero |-> Null, emptyState |-> FALSE, cards |-> <<>>, sidebar |-> Null]

RenderPage(d) ==
    IF d = Null
    THEN NoTree("notFound")
    ELSE [outcome |-> "rendered",
          hero |-> Some(Hero(Val(d).category)),
          emptyState |-> (Len(Val(d).articles) = 0),
          cards |-> [i \in DOMAIN Val(d).articles |-> ArticleCard(Val(d).articles[i])],
          sidebar |-> Some(Sidebar(Val(d)))]

NoMetadata(outcome) == [outcome |-> outcome, value |-> Null]

-----------------------------------------------------------------------------
(* Store contents explored *)

Category(id, slug, name, description, seoTitle, seoDescription) ==
    [id |-> id, slug |-> slug, name |-> name, description |-> description,
     seoTitle |-> seoTitle, seoDescription |-> seoDescription]

PlainCategory(id, slug, name) == Category(id, slug, name, Null, Null, Null)

Article(id, status, categoryId, publishedAt, createdAt) ==
    [id |-> id, slug |-> "tip-" \o ToString(id), status |-> status,
     categoryId |-> categoryId, publishedAt |-> publishedAt, createdAt |-> createdAt]

\* Every sequence of at most n article rows whose attributes are drawn from attrs;
\* a row's id is its position.
ArticleRows(n, attrs) ==
    UNION {{[i \in 1..k |-> Article(i, f[i].status, f[i].categoryId,
                                    f[i].publishedAt, f[i].createdAt)] :
            f \in [1..k -> attrs]} : k \in 0..n}

Attrs(statuses, categoryIds, publishedAts, createdAts) ==
    [status : statuses, categoryId : categoryIds,
     publishedAt : publishedAts, createdAt : createdAts]

Optional(values) == {Null} \cup {Some(v) : v \in values}

\* The fixed category with every combination of its optional fields, or no
\* such category (and then, by the foreign key, no article of it).
MetaStores ==
    {[categories |-> <<>>, articles |-> <<>>]} \cup
    {[categories |-> <<Category(1, CATEGORY_SLUG, name, description, seoTitle, seoDescription)>>,
      articles |-> articles] :
        name \in {"Oral Health Tips", "Dental Care"},
        description \in Optional({"Tips for families."}),
        seoTitle \in Optional({"Custom Title", ""}),
        seoDescription \in Optional({"Custom description."}),
        articles \in ArticleRows(1, Attrs({PUBLISHED}, {1}, {Null}, {1}))}

\* The fixed category with articles of every status, publish date and creation date.
OrderStores(n) ==
    {[categories |-> <<PlainCategory(1, CATEGORY_SLUG, "Oral Health Tips")>>,
      articles |-> articles] :
        articles \in ArticleRows(n, Attrs(Statuses, {1}, Optional(Stamps), Stamps))}

\* The fixed category (or none) with up to n articles.
ListingStores(n) ==
    {[categories |-> <<>>, articles |-> <<>>]} \cup
    {[categories |-> <<PlainCategory(1, CATEGORY_SLUG, "Oral Health Tips")>>,
      articles |-> articles] :
        articles \in ArticleRows(n, Attrs(Statuses, {1}, Optional({1}), {1}))}

\* Every sequence of category rows with distinct slugs; a row's id is its position.
CategoryRows ==
    LET slugs == {CATEGORY_SLUG} \cup SiblingSlugs
        names(slug) == IF slug = CATEGORY_SLUG THEN {"Oral Health Tips"}
                       ELSE {"Dental Care", "Teething"}
        shapes == UNION {[1..k -> [slug : slugs, name : Range(NamesAscending)]] :
                         k \in 0..Cardinality(slugs)}
    IN  {[i \in DOMAIN f |-> PlainCategory(i, f[i].slug, f[i].name)] :
         f \in {g \in shapes :
                  /\ \A i \in DOMAIN g : g[i].name \in names(g[i].slug)
                  /\ \A i, j \in DOMAIN g : i # j => g[i].slug # g[j].slug}}

\* Any categories, with articles of either status in any of them.
SiblingStores(n) ==
    UNION {{[categories |-> categories, articles |-> articles] :
            articles \in IF categories = <<>> THEN {<<>>}
                         ELSE ArticleRows(n,
                                          Attrs(Statuses, DOMAIN categories, {Null}, {1}))} :
           categories \in CategoryRows}

\* A few whole stores between which other parts of the site move the data.
TipsAndSibling ==
    <<PlainCategory(1, CATEGORY_SLUG, "Oral Health Tips"),
      PlainCategory(2, "teething", "Teething")>>

MainStores ==
    {[categories |-> <<>>, articles |-> <<>>],
     [categories |-> TipsAndSibling,
      articles |-> <<Article(1, PUBLISHED, 1, Some(1), 1), Article(2, PUBLISHED, 2, Null, 1)>>],
     [categories |-> TipsAndSibling,
      articles |-> <<Article(1, "DRAFT", 1, Null, 1), Article(2, PUBLISHED, 1, Some(1), 1),
                     Article(3, PUBLISHED, 1, Some(1), 1)>>]}

-----------------------------------------------------------------------------
(* Initial states: a request arrives, neither handler has started *)

NoResults == [q \in Queries |-> IF q = "category" THEN Null ELSE <<>>]

RequestStart ==
    /\ descNullsFirst \in BOOLEAN
    /\ version = 0
    /\ query = [c \in Callers |-> [q \in Queries |-> "unissued"]]
    /\ issued = [c \in Callers |-> [q \in Queries |-> 0]]
    /\ seen = [c \in Callers |-> [q \in Queries |-> 0]]
    /\ result = [c \in Callers |-> NoResults]
    /\ loader = [c \in Callers |-> "idle"]
    /\ data = [c \in Callers |-> Null]
    /\ metadata = NoMetadata("pending")
    /\ page = NoTree("pending")

Init == store \in MainStores /\ RequestStart
InitMeta == store \in MetaStores /\ RequestStart
InitOrder == store \in OrderStores(MaxArticles) /\ RequestStart
InitListing == store \in ListingStores(MaxListed) /\ RequestStart
InitSiblings == store \in SiblingStores(MaxArticles) /\ RequestStart

-----------------------------------------------------------------------------
(* getOralHealthTipsData, step by step *)

\* Promise.all([...]): the three queries are sent in one synchronous pass.
Call(c) ==
    /\ loader[c] = "idle"
    /\ loader' = [loader EXCEPT ![c] = "waiting"]
    /\ query' = [query EXCEPT ![c] = [q \in Queries |-> "pending"]]
    /\ issued' = [issued EXCEPT ![c] = [q \in Queries |-> issued[c][q] + 1]]
    /\ UNCHANGED <<store, descNullsFirst, version, seen, result, data, metadata, page>>

\* The store answers one query from its current contents.
Resolve(c, q) ==
    /\ query[c][q] = "pending"
    /\ query' = [query EXCEPT ![c][q] = "resolved"]
    /\ result' = [result EXCEPT ![c][q] = RunQuery(q, store, descNullsFirst)]
    /\ seen' = [seen EXCEPT ![c][q] = version]
    /\ UNCHANGED <<store, descNullsFirst, version, issued, loader, data, metadata, page>>

\* Variant: a failed query is sent again.
RejectAndRetry(c, q) ==
    /\ query[c][q] = "pending"
    /\ issued[c][q] <= 1
    /\ issued' = [issued EXCEPT ![c][q] = issued[c][q] + 1]
    /\ UNCHANGED <<store, descNullsFirst, version, query, seen, result, loader, data,
                   metadata, page>>

\* The store fails one query.
Reject(c, q) ==
    /\ query[c][q] = "pending"
    /\ query' = [query EXCEPT ![c][q] = "rejected"]
    /\ UNCHANGED <<store, descNullsFirst, version, issued, seen, result, loader, data,
                   metadata, page>>

\* Variant: the Loader goes on as soon as the category lookup has resolved.
JoinedOnCategory(c) == query[c]["category"] = "resolved"

\* Promise.all fulfils when every query has.
Joined(c) == \A q \in Queries : query[c][q] = "resolved"

\* Promise.all rejects as soon as one query has.
Broken(c) == \E q \in Queries : query[c][q] = "rejected"

\* await Promise.all(...) resumes: if (!category) return null; else the PageData.
LoaderReturn(c) ==
    /\ loader[c] = "waiting"
    /\ Joined(c)
    /\ loader' = [loader EXCEPT ![c] = "returned"]
    /\ data' = [data EXCEPT ![c] = LoaderResult(result[c])]
    /\ UNCHANGED <<store, descNullsFirst, version, query, issued, seen, result, metadata, page>>

\* await Promise.all(...) throws: no catch in the Loader.
LoaderThrow(c) ==
    /\ loader[c] = "waiting"
    /\ Broken(c)
    /\ loader' = [loader EXCEPT ![c] = "failed"]
    /\ UNCHANGED <<store, descNullsFirst, version, query, issued, seen, result, data,
                   metadata, page>>

-----------------------------------------------------------------------------
(* The two handlers around their own Loader invocation *)

MetadataResume ==
    /\ metadata.outcome = "pending"
    /\ loader["generateMetadata"] = "returned"
    /\ metadata' = [outcome |-> "done", value |-> Some(BuildMetadata(data["generateMetadata"]))]
    /\ UNCHANGED <<store, descNullsFirst, version, query, issued, seen, result, loader,
                   data, page>>

MetadataFault ==
    /\ metadata.outcome = "pending"
    /\ loader["generateMetadata"] = "failed"
    /\ metadata' = NoMetadata("fault")
    /\ UNCHANGED <<store, descNullsFirst, version, query, issued, seen, result, loader,
                   data, page>>

PageResume ==
    /\ page.outcome = "pending"
    /\ loader["OralHealthTipsPage"] = "returned"
    /\ page' = RenderPage(data["OralHealthTipsPage"])
    /\ UNCHANGED <<store, descNullsFirst, version, query, issued, seen, result, loader,
                   data, metadata>>

PageFault ==
    /\ page.outcome = "pending"
    /\ loader["OralHealthTipsPage"] = "failed"
    /\ page' = NoTree("fault")
    /\ UNCHANGED <<store, descNullsFirst, version, query, issued, seen, result, loader,
                   data, metadata>>

\* Another part of the site writes the store.
ExternalWrite ==
    /\ version < MaxWrites
    /\ store' \in MainStores \ {store}
    /\ version' = version + 1
    /\ UNCHANGED <<descNullsFirst, query, issued, seen, result, loader, data, metadata, page>>

Next ==
    \/ \E c \in Callers : Call(c)
    \/ \E c \in Callers, q \in Queries : Resolve(c, q)
    \/ \E c \in Callers, q \in Queries : Reject(c, q)
    \/ \E c \in Callers : LoaderReturn(c)
    \/ \E c \in Callers : LoaderThrow(c)
    \/ MetadataResume
    \/ MetadataFault
    \/ PageResume
    \/ PageFault
    \/ ExternalWrite

Spec == Init /\ [][Next]_vars

-----------------------------------------------------------------------------
(* The handlers as whole operations over a store that answers every query *)

getOralHealthTipsData(c) ==
    /\ loader[c] = "idle"
    /\ query' = [query EXCEPT ![c] = [q \in Queries |-> "resolved"]]
    /\ issued' = [issued EXCEPT ![c] = [q \in Queries |-> issued[c][q] + 1]]
    /\ seen' = [seen EXCEPT ![c] = [q \in Queries |-> version]]
    /\ result' = [result EXCEPT ![c] = [q \in Queries |-> RunQuery(q, store, descNullsFirst)]]
    /\ loader' = [loader EXCEPT ![c] = "returned"]
    /\ data' = [data EXCEPT ![c] = LoaderResult(result'[c])]

generateMetadata ==
    /\ metadata.outcome = "pending"
    /\ getOralHealthTipsData("generateMetadata")
    /\ metadata' = [outcome |-> "done", value |-> Some(BuildMetadata(data'["generateMetadata"]))]
    /\ UNCHANGED <<store, descNullsFirst, version, page>>

OralHealthTipsPage ==
    /\ page.outcome = "pending"
    /\ getOralHealthTipsData("OralHealthTipsPage")
    /\ page' = RenderPage(data'["OralHealthTipsPage"])
    /\ UNCHANGED <<store, descNullsFirst, version, metadata>>

NextHandlers == generateMetadata \/ OralHealthTipsPage

SpecMeta == InitMeta /\ [][NextHandlers]_vars
SpecOrder == InitOrder /\ [][NextHandlers]_vars
SpecListing == InitListing /\ [][NextHandlers]_vars
SpecSiblings == InitSiblings /\ [][NextHandlers]_vars

-----------------------------------------------------------------------------
(* Properties *)

GM == "generateMetadata"
PG == "OralHealthTipsPage"

CategoryAbsent == \A i \in DOMAIN store.categories : store.categories[i].slug # CATEGORY_SLUG

TipsRow == CHOOSE c \in Range(store.categories) : c.slug = CATEGORY_SLUG

StoreArticle(id) == CHOOSE a \in Range(store.articles) : a.id = id

StoreCategoryOf(a) == CHOOSE c \in Range(store.categories) : c.id = a.categoryId

PublishedIn(c) == {a \in Range(store.articles) : a.categoryId = c.id /\ a.status = PUBLISHED}

Returned(c) == loader[c] = "returned"

\* C1: when the store has no category with the fixed slug, the Loader returns
\* null to each caller and the page ends in notFound with no hero, no article
\* card, no empty-state block and no sidebar, whatever else the store holds.
C1_AbsentCategoryIsNotFound ==
    CategoryAbsent =>
        /\ \A c \in Callers : Returned(c) => data[c] = Null
        /\ page.outcome # "pending" =>
              /\ page.outcome = "notFound"
              /\ page.hero = Null
              /\ page.cards = <<>>
              /\ ~page.emptyState
              /\ page.sidebar = Null

C1_Witness ==
    /\ CategoryAbsent
    /\ \E a \in Range(store.articles) : a.status = PUBLISHED
    /\ Len(store.categories) >= 2
    /\ Returned(GM) /\ data[GM] = Null
    /\ page.outcome = "notFound"

\* C2: every article the Loader's article query returns is a PUBLISHED row of
\* the fixed category, and every article id behind a sibling summary's count is
\* a PUBLISHED row.
C2_OnlyPublished ==
    \A c \in Callers : Returned(c) =>
        /\ \A i \in DOMAIN result[c]["articles"] :
              LET listed == result[c]["articles"][i]
              IN  /\ listed.status = PUBLISHED
                  /\ listed.category.slug = CATEGORY_SLUG
                  /\ StoreArticle(listed.id).status = PUBLISHED
                  /\ StoreCategoryOf(StoreArticle(listed.id)).slug = CATEGORY_SLUG
        /\ \A i \in DOMAIN result[c]["siblingCategories"] :
              \A j \in DOMAIN result[c]["siblingCategories"][i].articles :
                  StoreArticle(result[c]["siblingCategories"][i].articles[j].id).status = PUBLISHED

C2_Witness ==
    /\ Returned(PG) /\ data[PG] # Null
    /\ Len(Val(data[PG]).articles) >= 1
    /\ Len(Val(data[PG]).siblingCategories) >= 1
    /\ \E a \in Range(store.articles) : a.status # PUBLISHED

\* The sibling categories the store holds: slug other than the fixed one and at
\* least one PUBLISHED article, each with the number of its PUBLISHED articles.
ExpectedSiblings ==
    {[name |-> c.name, slug |-> c.slug, count |-> Cardinality(PublishedIn(c))] :
        c \in {d \in Range(store.categories) :
                  d.slug # CATEGORY_SLUG /\ PublishedIn(d) # {}}}

\* C4: when the fixed category exists, the sibling summaries are exactly the
\* categories with another slug and at least one PUBLISHED article, each once,
\* with count = its number of PUBLISHED articles (>= 1), in ascending name order.
C4_SiblingSummaries ==
    \A c \in Callers : (Returned(c) /\ ~CategoryAbsent) =>
        /\ data[c] # Null
        /\ LET sibs == Val(data[c]).siblingCategories
           IN  /\ Range(sibs) = ExpectedSiblings
               /\ Len(sibs) = Cardinality(ExpectedSiblings)
               /\ \A i \in DOMAIN sibs : sibs[i].count >= 1 /\ sibs[i].slug # CATEGORY_SLUG
               /\ \A i, j \in DOMAIN sibs :
                     i < j => NameRank(sibs[i].name) <= NameRank(sibs[j].name)

C4_Witness ==
    /\ Returned(PG) /\ data[PG] # Null
    /\ Len(Val(data[PG]).siblingCategories) = 2
    /\ Val(data[PG]).siblingCategories[1].name # Val(data[PG]).siblingCategories[2].name
    /\ \E i \in 1..2 : Val(data[PG]).siblingCategories[i].count = 2
    /\ store.categories[1].name = "Teething"

\* The claim's ordering of an adjacent pair as stated: a's publish date is at
\* least b's, or the dates are equal or null and a was created no earlier.
PairAsStated(a, b) ==
    \/ /\ a.publishedAt # Null /\ b.publishedAt # Null
       /\ Val(a.publishedAt) >= Val(b.publishedAt)
    \/ /\ a.publishedAt = b.publishedAt \/ a.publishedAt = Null \/ b.publishedAt = Null
       /\ a.createdAt >= b.createdAt

\* C3 as stated: every adjacent pair of every returned article list is ordered
\* by publishedAt descending, or by createdAt descending when the publish dates
\* are equal or null, articles with a null publishedAt included.
C3_AsStated ==
    \A c \in Callers : Returned(c) =>
        \A i \in 1..(Len(result[c]["articles"]) - 1) :
            PairAsStated(result[c]["articles"][i], result[c]["articles"][i + 1])

\* Lexicographic order on pairs whose publish dates are both set or both null.
PairOrdered(a, b) ==
    /\ (a.publishedAt # Null /\ b.publishedAt # Null) =>
          \/ Val(a.publishedAt) > Val(b.publishedAt)
          \/ Val(a.publishedAt) = Val(b.publishedAt) /\ a.createdAt >= b.createdAt
    /\ (a.publishedAt = Null /\ b.publishedAt = Null) => a.createdAt >= b.createdAt

\* The undated articles are one block, at the end where the database puts nulls.
NullsTogether(list) ==
    \A i, j \in DOMAIN list :
        (i < j /\ (list[i].publishedAt = Null) # (list[j].publishedAt = Null)) =>
            ((list[i].publishedAt = Null) <=> descNullsFirst)

\* C3: in every returned article list, an adjacent pair with both publish dates
\* set is ordered by publishedAt descending, then createdAt descending; a pair
\* with both null is ordered by createdAt descending; undated articles are not
\* ordered against dated ones by createdAt but form one block before or after
\* all dated articles, as the database places nulls.
C3_OrderedWithinDatedAndUndated ==
    \A c \in Callers : Returned(c) =>
        /\ \A i \in 1..(Len(result[c]["articles"]) - 1) :
              PairOrdered(result[c]["articles"][i], result[c]["articles"][i + 1])
        /\ NullsTogether(result[c]["articles"])

C3_Witness ==
    /\ Returned(PG)
    /\ LET list == result[PG]["articles"]
       IN  /\ Len(list) = 3
           /\ \E i \in 1..3 : list[i].publishedAt = Null
           /\ \E i \in 1..2 : /\ list[i].publishedAt # Null
                              /\ list[i].publishedAt = list[i + 1].publishedAt
                              /\ list[i].createdAt > list[i + 1].createdAt
                              /\ list[i].id > list[i + 1].id

\* C5: generateMetadata returns the fixed fallback title and description when
\* the Loader returns null; otherwise the title is category.seoTitle when it is
\* set and "<name> | Pediatric Dentist Directory" when not, and the description
\* is seoDescription, else description, else the fixed fallback sentence.
C5_MetadataTitleAndDescription ==
    metadata.outcome = "done" =>
        LET m == Val(metadata.value)
        IN  IF CategoryAbsent
            THEN /\ m.title = "Oral Health Tips for Kids"
                 /\ m.description = FallbackDescription
            ELSE /\ m.title = (IF TipsRow.seoTitle # Null THEN TipsRow.seoTitle[1]
                               ELSE TipsRow.name \o " | Pediatric Dentist Directory")
                 /\ m.description = (IF TipsRow.seoDescription # Null
                                        THEN TipsRow.seoDescription[1]
                                     ELSE IF TipsRow.description # Null
                                        THEN TipsRow.description[1]
                                     ELSE DefaultDescription)
                 /\ (TipsRow.seoTitle = Null /\ TipsRow.name = "Oral Health Tips") =>
                        m.title = "Oral Health Tips | Pediatric Dentist Directory"

C5_Witness ==
    /\ metadata.outcome = "done"
    /\ ~CategoryAbsent
    /\ TipsRow.seoTitle = Some("")
    /\ TipsRow.seoDescription = Null
    /\ TipsRow.description # Null
    /\ Val(metadata.value).title = ""
    /\ Val(metadata.value).description = "Tips for families."

MirrorsOpenGraph(m) ==
    /\ DOMAIN m = {"title", "description", "openGraph"}
    /\ DOMAIN m.openGraph = {"title", "description"}
    /\ m.openGraph.title = m.title
    /\ m.openGraph.description = m.description

\* C6 as stated: every result of generateMetadata, the Loader having returned a
\* category or null, has the fields title, description and openGraph, and
\* openGraph's title and description equal the top-level ones.
C6_AsStated ==
    metadata.outcome = "done" => MirrorsOpenGraph(Val(metadata.value))

\* C6: when the Loader returns a category, the result of generateMetadata has
\* title, description and openGraph, with openGraph's title and description
\* equal to the top-level ones; when the Loader returns null the result has
\* title and description only, and no openGraph.
C6_OpenGraphOnlyWithCategory ==
    metadata.outcome = "done" =>
        IF data[GM] # Null
        THEN MirrorsOpenGraph(Val(metadata.value))
        ELSE DOMAIN Val(metadata.value) = {"title", "description"}

C6_Witness ==
    /\ metadata.outcome = "done"
    /\ data[GM] # Null
    /\ Val(data[GM]).category.seoTitle # Null
    /\ Val(data[GM]).category.seoDescription # Null
    /\ Val(metadata.value).openGraph.title = "Custom Title"

PublishedTips ==
    {a \in Range(store.articles) :
        a.status = PUBLISHED /\ StoreCategoryOf(a).slug = CATEGORY_SLUG}

\* C7: a rendered page over n published articles of the category shows the
\* empty-state block and no card when n = 0, and n cards in Loader order and no
\* empty-state block when n > 0; the sidebar's related articles are the first
\* min(3, n) articles of the Loader's list, in order.
C7_ListingAndRelated ==
    page.outcome = "rendered" =>
        LET n == Cardinality(PublishedTips)
            list == Val(data[PG]).articles
            related == Val(page.sidebar).relatedArticles
        IN  /\ Len(list) = n
            /\ n = 0 => (page.emptyState /\ page.cards = <<>>)
            /\ n > 0 => (~page.emptyState /\ Len(page.cards) = n)
            /\ \A i \in DOMAIN page.cards : page.cards[i].key = list[i].id
            /\ Len(related) = Min(3, n)
            /\ \A i \in DOMAIN related : related[i] = list[i]

C7_Witness ==
    /\ page.outcome = "rendered"
    /\ Len(page.cards) = 4
    /\ Len(Val(page.sidebar).relatedArticles) = 3
    /\ Val(page.sidebar).relatedArticles[1].id # 1

\* C10: on every card the title link goes to "/blog/<slug>/" with the card's own
\* article slug, and the "Read tip" link goes to the one literal path
\* "/blog/{article.slug}/"; two cards with different slugs have different title
\* links and the same "Read tip" link.
C10_ReadTipLinkIsLiteral ==
    page.outcome = "rendered" =>
        LET list == Val(data[PG]).articles
        IN  /\ \A i \in DOMAIN page.cards :
                  /\ page.cards[i].titleHref = "/blog/" \o list[i].slug \o "/"
                  /\ page.cards[i].readHref = "/blog/{article.slug}/"
            /\ \A i, j \in DOMAIN page.cards :
                  list[i].slug # list[j].slug =>
                      /\ page.cards[i].titleHref # page.cards[j].titleHref
                      /\ page.cards[i].readHref = page.cards[j].readHref

C10_Witness ==
    /\ page.outcome = "rendered"
    /\ Len(page.cards) >= 2
    /\ page.cards[1].titleHref = "/blog/tip-2/"
    /\ page.cards[2].titleHref = "/blog/tip-1/"
    /\ page.cards[1].readHref = page.cards[2].readHref

Produced(c) == IF c = GM THEN metadata.outcome = "done"
               ELSE page.outcome \in {"rendered", "notFound"}

Faulted(c) == IF c = GM THEN metadata.outcome = "fault" ELSE page.outcome = "fault"

\* C8: in each Loader invocation the three queries are sent together, before
\* any of them is awaited; the Loader returns (PageData or null) only once all
\* three have resolved; once one of them has rejected the Loader returns
\* nothing and can only fail, and its caller then derives no metadata and
\* renders no page from the results that did arrive, but ends in a fault.
C8_JoinAllOrFault ==
    \A c \in Callers :
        /\ (\E q \in Queries : query[c][q] # "unissued") =>
              (\A q \in Queries : query[c][q] # "unissued")
        /\ loader[c] = "idle" <=> (\A q \in Queries : query[c][q] = "unissued")
        /\ Returned(c) => \A q \in Queries : query[c][q] = "resolved"
        /\ (\E q \in Queries : query[c][q] = "rejected") =>
              /\ loader[c] \in {"waiting", "failed"}
              /\ data[c] = Null
              /\ ~Produced(c)
        /\ loader[c] = "failed" => \E q \in Queries : query[c][q] = "rejected"
        /\ Produced(c) => Returned(c)
        /\ Faulted(c) => loader[c] = "failed"

C8_Witness ==
    /\ query[PG]["category"] = "resolved"
    /\ result[PG]["category"] # Null
    /\ query[PG]["articles"] = "resolved"
    /\ query[PG]["siblingCategories"] = "rejected"
    /\ loader[PG] = "failed"
    /\ page = NoTree("fault")
    /\ Returned(GM) /\ data[GM] # Null /\ metadata.outcome = "done"

\* The six queries of the request all read the same contents of the store.
OneSnapshot == \A c, d \in Callers : \A q, r \in Queries : seen[c][q] = seen[d][r]

====
